---- MODULE Spec2Model ----
(***************************************************************************)
(* Model of app.py: a client/order manager over an SQLite file (app.db).   *)
(*                                                                         *)
(* Text is a sequence of one-character strings, so that strip(), int(),    *)
(* float() and date.fromisoformat() are computed character by character.   *)
(* A table is the set of its rows; a row is the tuple the code's SELECTs   *)
(* return: <<id, nome, email, telefone>> for clientes and                  *)
(* <<id, cliente_id, produto, valor, data>> for pedidos.                   *)
(* A REAL is held as a whole number of hundredths.                         *)
(***************************************************************************)
EXTENDS Integers, Sequences, FiniteSets

VARIABLES
    db,      \* the database file DB_PATH: both tables and sqlite_sequence
    last,    \* the latest data-access call: its name, arguments and outcome
    issued,  \* history: the ids each table's add_* has returned, in order
    pc       \* main_loop: "menu" (prompting), "exited" (option 0), "crashed"

vars == <<db, last, issued, pc>>

\* ------------------------------------------------------------------ bounds
MaxClientId == 2
MaxOrderId == 2
MaxAttempts == 2

\* -------------------------------------------------------------------- text
\* Python's None (SQL NULL): no text the user can type has this element.
None == <<"None">>

Digits == {"0", "1", "2", "3", "4", "5", "6", "7", "8", "9"}

DigitVal(c) ==
    CASE c = "0" -> 0 [] c = "1" -> 1 [] c = "2" -> 2 [] c = "3" -> 3
      [] c = "4" -> 4 [] c = "5" -> 5 [] c = "6" -> 6 [] c = "7" -> 7
      [] c = "8" -> 8 [] c = "9" -> 9

RECURSIVE lstrip(_)
lstrip(s) == IF s # <<>> /\ Head(s) = " " THEN lstrip(Tail(s)) ELSE s

RECURSIVE rstrip(_)
rstrip(s) ==
    IF s # <<>> /\ s[Len(s)] = " " THEN rstrip(SubSeq(s, 1, Len(s) - 1)) ELSE s

\* str.strip()
strip(s) == rstrip(lstrip(s))

AllDigits(s) == \A i \in 1..Len(s) : s[i] \in Digits

RECURSIVE DecimalVal(_)
DecimalVal(s) ==
    IF s = <<>> THEN 0
    ELSE 10 * DecimalVal(SubSeq(s, 1, Len(s) - 1)) + DigitVal(s[Len(s)])

Unsigned(s) == IF s # <<>> /\ Head(s) \in {"-", "+"} THEN Tail(s) ELSE s
Sign(s) == IF s # <<>> /\ Head(s) = "-" THEN -1 ELSE 1

\* int(s) accepts an optional sign and decimal digits; anything else is a ValueError.
IsInt(s) == Unsigned(s) # <<>> /\ AllDigits(Unsigned(s))
IntVal(s) == Sign(s) * DecimalVal(Unsigned(s))

\* float(s), for decimal notation: digits with at most one point and at most
\* two decimals; the value is in hundredths.
DotAt(s) == {i \in 1..Len(s) : s[i] = "."}
IntPart(s) == IF DotAt(s) = {} THEN s ELSE SubSeq(s, 1, (CHOOSE i \in DotAt(s) : TRUE) - 1)
FracPart(s) == IF DotAt(s) = {} THEN <<>> ELSE SubSeq(s, (CHOOSE i \in DotAt(s) : TRUE) + 1, Len(s))
IsFloat(s) ==
    LET u == Unsigned(s) IN
    /\ Cardinality(DotAt(u)) <= 1
    /\ AllDigits(IntPart(u)) /\ AllDigits(FracPart(u))
    /\ Len(IntPart(u)) + Len(FracPart(u)) > 0
    /\ Len(FracPart(u)) <= 2
FloatVal(s) ==
    LET u == Unsigned(s)
        f == FracPart(u)
        hundredths == IF Len(f) = 0 THEN 0
                      ELSE IF Len(f) = 1 THEN 10 * DecimalVal(f)
                      ELSE DecimalVal(f)
    IN Sign(s) * (100 * DecimalVal(IntPart(u)) + hundredths)

\* datetime.date.fromisoformat(s): YYYY-MM-DD naming a day of the calendar.
IsLeap(y) == (y % 4 = 0 /\ y % 100 # 0) \/ y % 400 = 0
DaysInMonth(y, m) ==
    IF m = 2 THEN (IF IsLeap(y) THEN 29 ELSE 28)
    ELSE IF m \in {4, 6, 9, 11} THEN 30 ELSE 31
IsISODate(s) ==
    /\ Len(s) = 10
    /\ s[5] = "-" /\ s[8] = "-"
    /\ AllDigits(SubSeq(s, 1, 4)) /\ AllDigits(SubSeq(s, 6, 7)) /\ AllDigits(SubSeq(s, 9, 10))
    /\ LET y == DecimalVal(SubSeq(s, 1, 4))
           m == DecimalVal(SubSeq(s, 6, 7))
           d == DecimalVal(SubSeq(s, 9, 10))
       IN y >= 1 /\ m \in 1..12 /\ d \in 1..DaysInMonth(y, m)


\* ---------------------------------------------------------------- storage
\* The connection get_conn() returns. SQLite enforces foreign keys only on a
\* connection that ran PRAGMA foreign_keys = ON; get_conn() runs no PRAGMA.
foreign_keys == FALSE

\* init_db on a file that does not exist yet: two empty tables, and no
\* sqlite_sequence entry yet (its seq reads as 0).
EmptyDb ==
    [clientes |-> {}, pedidos |-> {}, sqlite_sequence |-> [clientes |-> 0, pedidos |-> 0]]

Ids(rows) == {r[1] : r \in rows}

SetMax(S) == IF S = {} THEN 0 ELSE CHOOSE x \in S : \A y \in S : y <= x

\* The rowid a table without AUTOINCREMENT would give: one more than the
\* largest rowid now in the table.
NextRowidMaxOnly(rows, seq) == SetMax(Ids(rows)) + 1

\* INTEGER PRIMARY KEY AUTOINCREMENT: one more than the largest rowid the
\* table has ever held (sqlite_sequence.seq).
NextRowid(rows, seq) == SetMax(Ids(rows) \cup {seq}) + 1

\* The outcome of one data-access call: the file afterwards, the value
\* returned, and whether sqlite3 raised (IntegrityError) instead of returning.
Returned(d, r) == [db |-> d, ret |-> r, raised |-> FALSE]
\* execute() raised before conn.commit(): nothing is written.
Raised(d) == [db |-> d, ret |-> None, raised |-> TRUE]

RECURSIVE OrderById(_)
\* ORDER BY id (the first column), ascending
OrderById(rows) ==
    IF rows = {} THEN <<>>
    ELSE LET first == CHOOSE r \in rows : \A q \in rows : r[1] <= q[1]
         IN <<first>> \o OrderById(rows \ {first})

\* ---------------------------------------------------------- CRUD clientes
\* the INSERT with two of its parameters in each other's place
add_client_swapped(d, nome, email, telefone) ==
    LET client_id == NextRowid(d.clientes, d.sqlite_sequence.clientes)
    IN Returned([d EXCEPT !.clientes = @ \cup {<<client_id, nome, telefone, email>>},
                          !.sqlite_sequence.clientes = client_id],
                client_id)

add_client(d, nome, email, telefone) ==
    IF nome = None THEN Raised(d)
    ELSE LET client_id == NextRowid(d.clientes, d.sqlite_sequence.clientes)
         IN Returned([d EXCEPT !.clientes = @ \cup {<<client_id, nome, email, telefone>>},
                               !.sqlite_sequence.clientes = client_id],
                     client_id)

get_clients(d) == OrderById(d.clientes)

get_client_by_id(d, client_id) ==
    IF \E r \in d.clientes : r[1] = client_id
    THEN CHOOSE r \in d.clientes : r[1] = client_id
    ELSE None

\* an UPDATE that sets nome and telefone only
update_client_keeps_email(d, client_id, nome, email, telefone) ==
    LET hit == {r \in d.clientes : r[1] = client_id}
    IN Returned([d EXCEPT !.clientes =
                    (@ \ hit) \cup {<<r[1], nome, r[3], telefone>> : r \in hit}],
                hit # {})

update_client(d, client_id, nome, email, telefone) ==
    LET hit == {r \in d.clientes : r[1] = client_id}
    IN IF hit # {} /\ nome = None THEN Raised(d)
       ELSE Returned([d EXCEPT !.clientes =
                         (@ \ hit) \cup {<<r[1], nome, email, telefone>> : r \in hit}],
                     hit # {})

\* `changed = cur.rowcount >= 0`: True whatever was deleted
delete_client_always_changed(d, client_id) ==
    Returned([d EXCEPT !.clientes = {r \in @ : r[1] # client_id}], TRUE)

\* rowcount counts the clientes rows deleted; rows a cascade removes from
\* pedidos are not counted.
delete_client(d, client_id) ==
    LET hit == {r \in d.clientes : r[1] = client_id}
        cascade == IF foreign_keys /\ hit # {}
                   THEN {o \in d.pedidos : o[2] = client_id}
                   ELSE {}
    IN Returned([d EXCEPT !.clientes = @ \ hit, !.pedidos = @ \ cascade], hit # {})

\* ----------------------------------------------------------- CRUD pedidos
add_order(d, cliente_id, produto, valor, data) ==
    IF \/ None \in {produto, data}
       \/ foreign_keys /\ cliente_id \notin Ids(d.clientes)
    THEN Raised(d)
    ELSE LET order_id == NextRowid(d.pedidos, d.sqlite_sequence.pedidos)
         IN Returned([d EXCEPT !.pedidos = @ \cup {<<order_id, cliente_id, produto, valor, data>>},
                               !.sqlite_sequence.pedidos = order_id],
                     order_id)

get_orders(d) == OrderById(d.pedidos)

get_order_by_id(d, order_id) ==
    IF \E o \in d.pedidos : o[1] = order_id
    THEN CHOOSE o \in d.pedidos : o[1] = order_id
    ELSE None

update_order(d, order_id, cliente_id, produto, valor, data) ==
    LET hit == {o \in d.pedidos : o[1] = order_id}
    IN IF /\ hit # {}
          /\ \/ None \in {produto, data}
             \/ foreign_keys /\ cliente_id \notin Ids(d.clientes)
       THEN Raised(d)
       ELSE Returned([d EXCEPT !.pedidos =
                         (@ \ hit) \cup {<<o[1], cliente_id, produto, valor, data>> : o \in hit}],
                     hit # {})

delete_order(d, order_id) ==
    LET hit == {o \in d.pedidos : o[1] = order_id}
    IN Returned([d EXCEPT !.pedidos = @ \ hit], hit # {})

\* ------------------------------------------------------------------- JOIN
JoinRow(p, c) == <<p[1], p[3], p[4], p[5], c[1], c[2], c[3], c[4]>>

\* A LEFT JOIN would also list an order without client, its client columns NULL.
list_orders_with_clients_left(d) ==
    OrderById({JoinRow(x[1], x[2]) :
                  x \in {y \in d.pedidos \X d.clientes : y[1][2] = y[2][1]}}
              \cup {JoinRow(p, <<None, None, None, None>>) :
                        p \in {o \in d.pedidos : o[2] \notin Ids(d.clientes)}})

list_orders_with_clients(d) ==
    OrderById({JoinRow(x[1], x[2]) :
                  x \in {y \in d.pedidos \X d.clientes : y[1][2] = y[2][1]}})


\* ----------------------------------------------------------------- inputs
Ana == <<"A", "n", "a">>
Bruno == <<"B", "r", "u", "n", "o">>
AnaEmail == <<"a", "@", "x", ".", "c", "o", "m">>
Fone == <<"1", "1", "1">>
Widget == <<"W", "i", "d", "g", "e", "t">>
Gadget == <<"G", "a", "d", "g", "e", "t">>
NewYear == <<"2", "0", "2", "4", "-", "0", "1", "-", "0", "1">>
LeapDay == <<"2", "0", "2", "4", "-", "0", "2", "-", "2", "9">>

ClientIds == 1..MaxClientId
OrderIds == 1..MaxOrderId
\* The argument lists a direct caller passes: every column takes two values.
ClientArgs == {<<Ana, AnaEmail, Fone>>, <<Bruno, None, None>>}
OrderArgs == {<<Widget, 999, NewYear>>, <<Gadget, 1250, LeapDay>>}

\* ------------------------------------------------------------------- state
Init ==
    /\ db = EmptyDb
    /\ last = [op |-> "init_db", args |-> <<>>, ret |-> None, raised |-> FALSE]
    /\ issued = [clientes |-> <<>>, pedidos |-> <<>>]
    /\ pc = "menu"

\* One data-access call made by a caller that goes on whatever the outcome.
Call(op, args, res) ==
    /\ db' = res.db
    /\ last' = [op |-> op, args |-> args, ret |-> res.ret, raised |-> res.raised]
    /\ issued' = IF op = "add_client" /\ ~res.raised
                 THEN [issued EXCEPT !.clientes = Append(@, res.ret)]
                 ELSE IF op = "add_order" /\ ~res.raised
                 THEN [issued EXCEPT !.pedidos = Append(@, res.ret)]
                 ELSE issued

\* ------------------------------------------- the data-access layer, called
\* directly (no shell in front of it)
AddClient ==
    \E a \in ClientArgs :
        /\ NextRowid(db.clientes, db.sqlite_sequence.clientes) <= MaxClientId
        /\ Call("add_client", a, add_client(db, a[1], a[2], a[3]))
        /\ UNCHANGED pc

GetClients ==
    /\ Call("get_clients", <<>>, Returned(db, get_clients(db)))
    /\ UNCHANGED pc

GetClientById ==
    \E client_id \in ClientIds :
        /\ Call("get_client_by_id", <<client_id>>, Returned(db, get_client_by_id(db, client_id)))
        /\ UNCHANGED pc

UpdateClient ==
    \E client_id \in ClientIds, a \in ClientArgs :
        /\ Call("update_client", <<client_id>> \o a,
                update_client(db, client_id, a[1], a[2], a[3]))
        /\ UNCHANGED pc

DeleteClient ==
    \E client_id \in ClientIds :
        /\ Call("delete_client", <<client_id>>, delete_client(db, client_id))
        /\ UNCHANGED pc

AddOrder ==
    \E cliente_id \in ClientIds, a \in OrderArgs :
        /\ NextRowid(db.pedidos, db.sqlite_sequence.pedidos) <= MaxOrderId
        /\ Call("add_order", <<cliente_id>> \o a,
                add_order(db, cliente_id, a[1], a[2], a[3]))
        /\ UNCHANGED pc

GetOrders ==
    /\ Call("get_orders", <<>>, Returned(db, get_orders(db)))
    /\ UNCHANGED pc

GetOrderById ==
    \E order_id \in OrderIds :
        /\ Call("get_order_by_id", <<order_id>>, Returned(db, get_order_by_id(db, order_id)))
        /\ UNCHANGED pc

UpdateOrder ==
    \E order_id \in OrderIds, cliente_id \in ClientIds, a \in OrderArgs :
        /\ Call("update_order", <<order_id, cliente_id>> \o a,
                update_order(db, order_id, cliente_id, a[1], a[2], a[3]))
        /\ UNCHANGED pc

DeleteOrder ==
    \E order_id \in OrderIds :
        /\ Call("delete_order", <<order_id>>, delete_order(db, order_id))
        /\ UNCHANGED pc

ListOrdersWithClients ==
    /\ Call("list_orders_with_clients", <<>>, Returned(db, list_orders_with_clients(db)))
    /\ UNCHANGED pc

Next ==
    \/ AddClient \/ GetClients \/ GetClientById \/ UpdateClient \/ DeleteClient
    \/ AddOrder \/ GetOrders \/ GetOrderById \/ UpdateOrder \/ DeleteOrder
    \/ ListOrdersWithClients

Spec == Init /\ [][Next]_vars


\* ------------------------------------------------------ terminal input
\* What the user may type at a prompt, one line per element.
DigitChar(i) == CHOOSE c \in Digits : DigitVal(c) = i
IntLines ==
    {<<DigitChar(i)>> : i \in 1..SetMax({MaxClientId, MaxOrderId})}
        \cup {<<" ", "1", " ">>, <<"x">>}
NomeLines == {<<>>, <<" ">>, <<" ">> \o Ana \o <<" ">>}
EmailLines == {<<>>, AnaEmail}
TelefoneLines == {<<>>}
ProdutoLines == {<<>>, Widget}
ValorLines == {<<>>, <<"x">>, <<"9", ".", "5">>}
NotLeapDay == <<"2", "0", "2", "3", "-", "0", "2", "-", "2", "9">>
DataLines == {<<>>, NewYear, NotLeapDay}
\* datetime.date.today().isoformat()
Todays == {NewYear}

\* The lines typed at one prompt that re-asks until a line is accepted: every
\* line but the last is refused, the last is accepted.
Runs(lines, accepted) ==
    {run \in UNION {[1..n -> lines] : n \in 1..MaxAttempts} :
        /\ run[Len(run)] \in accepted
        /\ \A i \in 1..(Len(run) - 1) : run[i] \notin accepted}

RECURSIVE input_int(_)
input_int(run) ==
    IF IsInt(strip(Head(run))) THEN IntVal(strip(Head(run))) ELSE input_int(Tail(run))

RECURSIVE input_float(_)
input_float(run) ==
    IF IsFloat(strip(Head(run))) THEN FloatVal(strip(Head(run))) ELSE input_float(Tail(run))

RECURSIVE input_date(_, _)
input_date(run, today) ==
    LET s == strip(Head(run))
    IN IF s = <<>> THEN today
       ELSE IF IsISODate(s) THEN s
       ELSE input_date(Tail(run), today)

IntAccepts(line) == IsInt(strip(line))
FloatAccepts(line) == IsFloat(strip(line))
DateAccepts(line) == strip(line) = <<>> \/ IsISODate(strip(line))

\* What each prompt can hand back to main_loop, over every run of lines typed.
IntInputs ==
    {input_int(run) : run \in Runs(IntLines, {line \in IntLines : IntAccepts(line)})}
FloatInputs ==
    {input_float(run) : run \in Runs(ValorLines, {line \in ValorLines : FloatAccepts(line)})}
DateInputs(today) ==
    {input_date(run, today) : run \in Runs(DataLines, {line \in DataLines : DateAccepts(line)})}
\* input(...).strip()
Stripped(lines) == {strip(line) : line \in lines}
NomeInputs == Stripped(NomeLines)
EmailInputs == Stripped(EmailLines)
TelefoneInputs == Stripped(TelefoneLines)
ProdutoInputs == Stripped(ProdutoLines)
ValorInputs == Stripped(ValorLines)
DataInputs == Stripped(DataLines)
DateInputsOn == [today \in Todays |-> DateInputs(today)]

\* `x` alone, where the code has `x or y`
OrLeft(x, y) == x

\* Python's `x or y` on text: y when x is empty
Or(x, y) == IF x = <<>> THEN y ELSE x

\* --------------------------------------------------------------- main_loop
\* A data-access call made from main_loop: an exception it raises is caught
\* nowhere (only KeyboardInterrupt is) and ends the loop.
ShellCall(op, args, res) ==
    /\ Call(op, args, res)
    /\ pc' = IF res.raised THEN "crashed" ELSE pc

\* `continue`, and every branch that only prints
Continue == UNCHANGED vars

\* The line typed at "Escolha uma opção: "
ChoiceLines ==
    {<<"0">>, <<"1">>, <<"2">>, <<"3">>, <<"4">>, <<"5">>, <<"6">>, <<"7">>, <<"8">>,
     <<"9">>, <<"1", "0">>, <<" ", "4", " ">>, <<"1", "1">>, <<>>}
Choices == Stripped(ChoiceLines)
Options ==
    {<<"0">>, <<"1">>, <<"2">>, <<"3">>, <<"4">>, <<"5">>, <<"6">>, <<"7">>, <<"8">>,
     <<"9">>, <<"1", "0">>}

\* One turn of the while loop, taken at the branch `choice == option`
Chosen(option) == pc = "menu" /\ option \in Choices

Option1 ==
    /\ Chosen(<<"1">>)
    /\ ShellCall("get_clients", <<>>, Returned(db, get_clients(db)))

Option2 ==
    /\ Chosen(<<"2">>)
    /\ \E nome \in NomeInputs, email_input \in EmailInputs, telefone_input \in TelefoneInputs :
        LET email == Or(email_input, None)
            telefone == Or(telefone_input, None)
        IN IF nome = <<>> THEN Continue
           ELSE /\ NextRowid(db.clientes, db.sqlite_sequence.clientes) <= MaxClientId
                /\ ShellCall("add_client", <<nome, email, telefone>>,
                             add_client(db, nome, email, telefone))

Option3 ==
    /\ Chosen(<<"3">>)
    /\ \E client_id \in IntInputs :
        LET existing == get_client_by_id(db, client_id)
        IN IF existing = None
           THEN ShellCall("get_client_by_id", <<client_id>>, Returned(db, existing))
           ELSE \E nome_input \in NomeInputs, email_input \in EmailInputs,
                   telefone_input \in TelefoneInputs :
                    LET nome == Or(nome_input, existing[2])
                        email == Or(email_input, existing[3])
                        telefone == Or(telefone_input, existing[4])
                    IN ShellCall("update_client", <<client_id, nome, email, telefone>>,
                                 update_client(db, client_id, nome, email, telefone))

Option4 ==
    /\ Chosen(<<"4">>)
    /\ \E client_id \in IntInputs :
        ShellCall("delete_client", <<client_id>>, delete_client(db, client_id))

Option5 ==
    /\ Chosen(<<"5">>)
    /\ ShellCall("get_orders", <<>>, Returned(db, get_orders(db)))

Option6 ==
    /\ Chosen(<<"6">>)
    /\ \E cliente_id \in IntInputs :
        LET found == get_client_by_id(db, cliente_id)
        IN IF found = None
           THEN ShellCall("get_client_by_id", <<cliente_id>>, Returned(db, found))
           ELSE \E produto \in ProdutoInputs, valor \in FloatInputs, today \in Todays :
                \E data \in DateInputsOn[today] :
                    /\ NextRowid(db.pedidos, db.sqlite_sequence.pedidos) <= MaxOrderId
                    /\ ShellCall("add_order", <<cliente_id, produto, valor, data>>,
                                 add_order(db, cliente_id, produto, valor, data))

Option7 ==
    /\ Chosen(<<"7">>)
    /\ \E order_id \in IntInputs :
        LET existing == get_order_by_id(db, order_id)
        IN IF existing = None
           THEN ShellCall("get_order_by_id", <<order_id>>, Returned(db, existing))
           ELSE \E cliente_id \in IntInputs :
                LET found == get_client_by_id(db, cliente_id)
                IN IF found = None
                   THEN ShellCall("get_client_by_id", <<cliente_id>>, Returned(db, found))
                   ELSE \E produto_input \in ProdutoInputs, valor_input \in ValorInputs,
                           data_input \in DataInputs :
                        LET produto == Or(produto_input, existing[3])
                            data == Or(data_input, existing[5])
                        IN IF valor_input # <<>> /\ ~IsFloat(valor_input)
                           THEN \* float(valor_input) raises ValueError
                                /\ Call("get_client_by_id", <<cliente_id>>, Returned(db, found))
                                /\ pc' = "crashed"
                           ELSE LET valor == IF valor_input # <<>> THEN FloatVal(valor_input)
                                             ELSE existing[4]
                                IN ShellCall("update_order",
                                             <<order_id, cliente_id, produto, valor, data>>,
                                             update_order(db, order_id, cliente_id, produto,
                                                          valor, data))

Option8 ==
    /\ Chosen(<<"8">>)
    /\ \E order_id \in IntInputs :
        ShellCall("delete_order", <<order_id>>, delete_order(db, order_id))

Option9 ==
    /\ Chosen(<<"9">>)
    /\ ShellCall("list_orders_with_clients", <<>>, Returned(db, list_orders_with_clients(db)))

AnaSilva == <<"A", "n", "a", " ", "S", "i", "l", "v", "a">>
BrunoCosta == <<"B", "r", "u", "n", "o", " ", "C", "o", "s", "t", "a">>
AnaExample == <<"a", "n", "a", "@", "e", "x", "a", "m", "p", "l", "e", ".", "c", "o", "m">>
BrunoExample ==
    <<"b", "r", "u", "n", "o", "@", "e", "x", "a", "m", "p", "l", "e", ".", "c", "o", "m">>
AnaFone == <<"1", "1", "9", "9", "9", "9", "9", "0", "0", "0", "0">>
BrunoFone == <<"2", "1", "9", "8", "8", "8", "8", "0", "0", "0", "0">>
\* "Teclado mecânico", its accent dropped
Teclado ==
    <<"T", "e", "c", "l", "a", "d", "o", " ", "m", "e", "c", "a", "n", "i", "c", "o">>
Monitor == <<"M", "o", "n", "i", "t", "o", "r", " ", "2", "4", "\"">>

seed_example ==
    IF get_clients(db) # <<>>
    THEN ShellCall("get_clients", <<>>, Returned(db, get_clients(db)))
    ELSE \E today \in Todays :
        LET c1 == add_client(db, AnaSilva, AnaExample, AnaFone)
            c2 == add_client(c1.db, BrunoCosta, BrunoExample, BrunoFone)
            o1 == add_order(c2.db, c1.ret, Teclado, 29990, today)
            o2 == add_order(o1.db, c2.ret, Monitor, 79950, today)
        IN /\ c2.ret <= MaxClientId
           /\ o2.ret <= MaxOrderId
           /\ db' = o2.db
           /\ last' = [op |-> "add_order", args |-> <<c2.ret, Monitor, 79950, today>>,
                       ret |-> o2.ret, raised |-> FALSE]
           /\ issued' = [clientes |-> issued.clientes \o <<c1.ret, c2.ret>>,
                         pedidos |-> issued.pedidos \o <<o1.ret, o2.ret>>]
           /\ UNCHANGED pc

Option10 ==
    /\ Chosen(<<"1", "0">>)
    /\ seed_example

Option0 ==
    /\ Chosen(<<"0">>)
    /\ pc' = "exited"
    /\ UNCHANGED <<db, last, issued>>

\* "Opção inválida. Tente novamente."
OptionOther ==
    /\ pc = "menu"
    /\ \E choice \in Choices \ Options : Continue

ShellNext ==
    \/ Option1 \/ Option2 \/ Option3 \/ Option4 \/ Option5 \/ Option6
    \/ Option7 \/ Option8 \/ Option9 \/ Option10 \/ Option0 \/ OptionOther

ShellSpec == Init /\ [][ShellNext]_vars


\* ------------------------------------------------------------------ claims
Range(f) == {f[i] : i \in DOMAIN f}
Increasing(ids) == \A i, j \in DOMAIN ids : i < j => ids[i] < ids[j]
IdsOf(rows) == [i \in DOMAIN rows |-> rows[i][1]]
Surviving(ids, rows) == LET Alive(id) == id \in Ids(rows) IN SelectSeq(ids, Alive)

\* C1: once delete_client(c) has deleted client c, no order with cliente_id = c
\* is left in pedidos.
C1_DeleteClientCascades ==
    (last.op = "delete_client" /\ ~last.raised /\ last.ret = TRUE)
        => \A o \in db.pedidos : o[2] # last.args[1]

\* C2: through the shell's menu, every stored order's cliente_id is the id of
\* a stored client.
C2_ReferentialIntegrity ==
    \A o \in db.pedidos : o[2] \in Ids(db.clientes)

\* C3: add_order or update_order called with a cliente_id that no client has
\* raises, and leaves pedidos as it was.
C3_UnknownClientRejected ==
    [][(/\ last'.op \in {"add_order", "update_order"}
        /\ last'.args[IF last'.op = "add_order" THEN 1 ELSE 2] \notin Ids(db.clientes))
          => (last'.raised /\ db'.pedidos = db.pedidos)]_vars

\* C4: add_client returns an id never returned before; get_client_by_id of it
\* then returns the row with exactly the values supplied; the rows that were
\* there are unchanged.
C4_AddClientRoundTrip ==
    [][last'.op = "add_client" =>
          /\ ~last'.raised
          /\ last'.ret \notin Range(issued.clientes)
          /\ get_client_by_id(db', last'.ret) = <<last'.ret>> \o last'.args
          /\ db.clientes \subseteq db'.clientes
          /\ Cardinality(db'.clientes) = Cardinality(db.clientes) + 1]_vars

\* an add_client that follows the deletion of an earlier client
C4_Witness ==
    /\ last.op = "add_client"
    /\ Len(issued.clientes) > Cardinality(db.clientes)
    /\ get_client_by_id(db, last.ret) = <<last.ret, Ana, AnaEmail, Fone>>

\* C5: each table's ids are issued in strictly increasing order, none twice,
\* and get_clients / get_orders list the surviving rows by ascending id, which
\* is the order they were created in; three clients added, the second
\* deleted and a fourth added are listed as first, third, fourth.
C5_IdsMonotonic ==
    /\ LET c1 == add_client(EmptyDb, Ana, AnaEmail, Fone)
           c2 == add_client(c1.db, Bruno, None, None)
           c3 == add_client(c2.db, Ana, None, Fone)
           gone == delete_client(c3.db, c2.ret)
           c4 == add_client(gone.db, Bruno, AnaEmail, None)
       IN IdsOf(get_clients(c4.db)) = <<c1.ret, c3.ret, c4.ret>>
          /\ c1.ret < c3.ret /\ c3.ret < c4.ret /\ c2.ret \notin {c1.ret, c3.ret, c4.ret}
    /\ Increasing(issued.clientes)
    /\ Increasing(issued.pedidos)
    /\ IdsOf(get_clients(db)) = Surviving(issued.clientes, db.clientes)
    /\ IdsOf(get_orders(db)) = Surviving(issued.pedidos, db.pedidos)
    /\ Ids(db.clientes) \subseteq Range(issued.clientes)
    /\ Ids(db.pedidos) \subseteq Range(issued.pedidos)

\* the client with the highest id was deleted, and the next add_client got a
\* higher id still
C5_Witness ==
    /\ last.op = "add_client"
    /\ Len(issued.clientes) >= 2
    /\ issued.clientes[Len(issued.clientes) - 1] \notin Ids(db.clientes)
    /\ last.ret = issued.clientes[Len(issued.clientes)]
    /\ last.ret > issued.clientes[Len(issued.clientes) - 1]
    /\ get_clients(db) # <<>>

\* C6: update_client / update_order return True exactly when the id has a row;
\* without one nothing changes; with one, that row alone changes and takes
\* every supplied value.
C6_UpdateFrame ==
    [][/\ last'.op = "update_client" =>
            LET id == last'.args[1]
                hit == {r \in db.clientes : r[1] = id}
            IN /\ ~last'.raised
               /\ last'.ret = (hit # {})
               /\ db'.pedidos = db.pedidos
               /\ db'.sqlite_sequence = db.sqlite_sequence
               /\ db'.clientes = (db.clientes \ hit) \cup {last'.args : r \in hit}
       /\ last'.op = "update_order" =>
            LET id == last'.args[1]
                hit == {o \in db.pedidos : o[1] = id}
            IN /\ ~last'.raised
               /\ last'.ret = (hit # {})
               /\ db'.clientes = db.clientes
               /\ db'.sqlite_sequence = db.sqlite_sequence
               /\ db'.pedidos = (db.pedidos \ hit) \cup {last'.args : o \in hit}]_vars

\* an update_client that found its row, beside a second client
C6_Witness ==
    /\ last.op = "update_client"
    /\ last.ret = TRUE
    /\ last.args \in db.clientes
    /\ Cardinality(db.clientes) = 2

\* C7: the shell recovers from every malformed input: main_loop is never ended
\* by one, and every stored order's date is a calendar date.
C7_InputErrorsRecovered ==
    /\ pc # "crashed"
    /\ \A o \in db.pedidos : IsISODate(o[5])

\* C8: list_orders_with_clients returns, by ascending order id, exactly one
\* row per order whose client exists, carrying that order's and that client's
\* columns, and no row for any other order.
C8_JoinListsOrdersWithClient ==
    last.op = "list_orders_with_clients" =>
        LET rows == last.ret
        IN /\ Increasing(IdsOf(rows))
           /\ \A p \in db.pedidos :
                (p[1] \in Range(IdsOf(rows))) <=> (p[2] \in Ids(db.clientes))
           /\ \A i \in DOMAIN rows :
                \E p \in db.pedidos, c \in db.clientes :
                    /\ p[2] = c[1]
                    /\ rows[i] = <<p[1], p[3], p[4], p[5], c[1], c[2], c[3], c[4]>>

\* two orders, one of a client that is stored and one of a client that is not
C8_Witness ==
    /\ last.op = "list_orders_with_clients"
    /\ Cardinality(db.pedidos) = 2
    /\ Len(last.ret) = 1

\* C9: delete_client / delete_order return True exactly when the id had a
\* row; afterwards the id has none, the table's other rows are unchanged, and
\* deleting the same id again returns False and changes nothing.
C9_DeleteFrame ==
    [][/\ last'.op = "delete_client" =>
            LET id == last'.args[1]
                again == delete_client(db', id)
            IN /\ ~last'.raised
               /\ last'.ret = (id \in Ids(db.clientes))
               /\ get_client_by_id(db', id) = None
               /\ db'.clientes = {r \in db.clientes : r[1] # id}
               /\ again.ret = FALSE /\ ~again.raised /\ again.db = db'
       /\ last'.op = "delete_order" =>
            LET id == last'.args[1]
                again == delete_order(db', id)
            IN /\ ~last'.raised
               /\ last'.ret = (id \in Ids(db.pedidos))
               /\ get_order_by_id(db', id) = None
               /\ db'.pedidos = {o \in db.pedidos : o[1] # id}
               /\ db'.clientes = db.clientes
               /\ again.ret = FALSE /\ ~again.raised /\ again.db = db']_vars

\* a delete_client that found its row and left the other client in place
C9_Witness ==
    /\ last.op = "delete_client"
    /\ last.ret = TRUE
    /\ Cardinality(db.clientes) = 1
    /\ Len(issued.clientes) = 2

\* C10: through the shell, every stored client has a name that is not empty.
C10_NameNotEmpty ==
    \A r \in db.clientes : r[2] # <<>> /\ r[2] # None

\* option 3 with the name left blank: the seeded name, which no input line
\* spells, is what update_client was given
C10_Witness ==
    /\ last.op = "update_client"
    /\ last.ret = TRUE
    /\ last.args[2] = AnaSilva
    /\ last.args \in db.clientes

====
